---- MODULE Spec2Model ----
(***************************************************************************)
(* The client side of the rsync staging pipeline (Client.dispatch,         *)
(* Client.receive, Client.burnRemainingOperations, Client.Stage) together  *)
(* with the Path value type.  One Stage call is modelled: the dispatcher   *)
(* goroutine, the receiver goroutine, the per-path ApplyDelta goroutine    *)
(* and the coordinator loop of Stage are the processes; channels are       *)
(* modelled with Go's semantics (a buffered channel blocks when full, an   *)
(* unbuffered one is a rendezvous, a receive on a closed and empty channel *)
(* yields the zero value, a range over a channel ends only on close).      *)
(* The stream is a reliable FIFO whose Encode and Decode may fail.         *)
(***************************************************************************)
EXTENDS Integers, Sequences, FiniteSets, TLC

\* ------------------------------------------------------------------ bounds
\* Longest path list handed to Stage in the general specification.
MaxPaths == 3
\* Longest operation stream (Done excluded) the responder sends for one path.
MaxOps == 2
\* Most failures (of any kind) the environment injects into one Stage call.
MaxFaults == 2
\* Number of distinct literal bytes in the specification that varies contents.
MaxData == 2
\* Longest Path value built by Appended, number of Path values built, and
\* number of component names.
MaxPathLen == 4
MaxValues == 6
MaxComponents == 2

\* ------------------------------------------------------- program constants
maxOutstandingStagingRequests == 4
\* make(chan struct{}, 1): the slots of each cancellation channel.
cancelSlots == 1

VARIABLES
    \* inputs of the Stage call
    paths,              \* the path list (path ids 1..n, in source order)
    alphabet,           \* literal bytes the true contents are made of
    \* Client.dispatch
    dPc, dIdx, dBase, dRet,
    \* channels made by Stage
    outstanding, outstandingClosed, dispatchCancel, receiveCancel,
    \* the stream
    wireReq, wireResp,
    \* Client.receive
    rPc, rReq, response, decodeError, applyError, applyExited, rRet,
    \* per-iteration objects of receive
    operationsClosed, applyErrors, target, tempExists, stagingHash,
    \* the ApplyDelta goroutine
    aPc,
    \* Client.Stage
    sPc, dispatchRunning, receiveRunning, dispatchError, receiveError, result,
    \* file system
    handle, stagingDir,
    \* history (not read by the program)
    \* commits: the paths whose temporary file was renamed, in order
    faults, sent, enqueued, dequeued, dropped, skipped, commits, discarded,
    dCancelled, misread, nFaults, applyFailed,
    \* sentSeq: the paths whose Request was encoded, in the order of the
    \* Encode calls; dequeuedSeq: the paths of the records the receiver took
    \* from the queue, in order; decodeFailed: the paths in whose iteration a
    \* Decode failed; raised: how often Stage sent on each cancel channel
    sentSeq, dequeuedSeq, decodeFailed, raised,
    \* Path values (used by the Path specification only)
    heap, values, expected

pipeVars == <<paths, alphabet, dPc, dIdx, dBase, dRet, outstanding, outstandingClosed,
              dispatchCancel, receiveCancel, wireReq, wireResp, rPc, rReq, response,
              decodeError, applyError, applyExited, rRet, operationsClosed,
              applyErrors, target, tempExists, stagingHash, aPc, sPc, dispatchRunning,
              receiveRunning, dispatchError, receiveError, result, handle, stagingDir,
              faults, sent, enqueued, dequeued, dropped, skipped, commits, discarded,
              dCancelled, misread, nFaults, applyFailed, sentSeq, dequeuedSeq,
              decodeFailed, raised>>
pathVars == <<heap, values, expected>>
vars == <<pipeVars, pathVars>>

inputVars == <<paths, alphabet>>
dispVars == <<dPc, dIdx, dBase, dRet>>
chanVars == <<outstanding, outstandingClosed, dispatchCancel, receiveCancel>>
wireVars == <<wireReq, wireResp>>
recvVars == <<rPc, rReq, response, decodeError, applyError, applyExited, rRet>>
iterVars == <<operationsClosed, applyErrors, target, tempExists, stagingHash, aPc>>
stageVars == <<sPc, dispatchRunning, receiveRunning, dispatchError, receiveError, result,
               raised>>
fsVars == <<handle, stagingDir>>
histVars == <<nFaults, applyFailed, faults, sent, enqueued, dequeued, dropped, skipped, commits, discarded,
              dCancelled, misread, sentSeq, dequeuedSeq, decodeFailed>>

\* ------------------------------------------------------------- protocol.go
\* response{Operation, Done}; path is the request the responder answers
\* with it (not on the wire, kept to tell the streams apart).
Response(p, d, done) == [path |-> p, data |-> d, done |-> done]

\* dispatchedRequest{path, base}.  base is the readSeekCloser the dispatcher
\* opened for the path (the file or the empty stand-in), named by the path it
\* was opened for; NilBase is the nil interface value.
NilBase == 0
DispatchedRequest(p, b) == [path |-> p, base |-> b]
\* the zero value a receive on the closed, empty queue yields
ZeroRequest == [path |-> 0, base |-> NilBase]

\* ----------------------------------------------------------------- hashing
\* hash.Hash: Reset, Write and Sum of the accumulator c.stagingHash.  The
\* digest is one byte wide.
HashReset == 0
HashWrite(h, b) == (h * 31 + b) % 256

\* fmt.Sprintf("%x", sum): two lowercase hexadecimal digits per byte.
HexDigits == <<"0", "1", "2", "3", "4", "5", "6", "7",
               "8", "9", "a", "b", "c", "d", "e", "f">>
HexName(sum) == <<HexDigits[(sum \div 16) + 1], HexDigits[(sum % 16) + 1]>>

\* -------------------------------------------------------------- file system
\* readSeekCloser.Close on the base of path p (os.File.Close, or the no-op
\* Close of the empty stand-in); a second Close of the same handle is kept
\* apart from the first.
CloseBase(h, p) ==
    [h EXCEPT ![p] = IF @ = "open" THEN "closed" ELSE "closedTwice"]

\* ---------------------------------------------------------- Client.dispatch
\* for _, path := range paths: the position after the iteration of paths[i].
NextPath(i) == IF i < Len(paths) THEN "open" ELSE "close"

\* os.Open(path.AppendedToRoot(c.root)), on failure the empty stand-in:
\* either way the dispatcher holds an open readSeekCloser for the path.
\* CreateSignature on it succeeds.  (Both calls touch the dispatcher's own
\* base only, so they are one step.)
DispatchSign ==
    /\ dPc = "open"
    /\ \E kind \in {"file", "empty"} : dBase' = kind
    /\ handle' = [handle EXCEPT ![paths[dIdx]] = "open"]
    /\ dPc' = "encode"
    /\ UNCHANGED <<inputVars, dIdx, dRet, chanVars, wireVars, recvVars, iterVars,
                   stageVars, stagingDir, histVars, pathVars>>

\* DispatchSkip with the failure returned from dispatch instead of skipping
\* the path.
DispatchSkipFatal ==
    /\ dPc = "open"
    /\ nFaults < MaxFaults
    /\ nFaults' = nFaults + 1
    /\ faults' = faults \cup {"signature"}
    /\ handle' = CloseBase([handle EXCEPT ![paths[dIdx]] = "open"], paths[dIdx])
    /\ skipped' = skipped \cup {paths[dIdx]}
    /\ dBase' = "nil"
    /\ dRet' = "signatureErr"
    /\ dPc' = "report"
    /\ UNCHANGED <<inputVars, dIdx, chanVars, wireVars, recvVars, iterVars, stageVars,
                   stagingDir, sent, enqueued, dequeued, dropped, commits, discarded,
                   dCancelled, misread, applyFailed, pathVars>>
    /\ UNCHANGED <<sentSeq, dequeuedSeq, decodeFailed>>

\* The base is opened as in DispatchSign, but CreateSignature fails:
\* base.Close(); continue.
DispatchSkip ==
    /\ dPc = "open"
    /\ nFaults < MaxFaults
    /\ nFaults' = nFaults + 1
    /\ faults' = faults \cup {"signature"}
    /\ handle' = CloseBase([handle EXCEPT ![paths[dIdx]] = "open"], paths[dIdx])
    /\ skipped' = skipped \cup {paths[dIdx]}
    /\ dBase' = "nil"
    /\ dPc' = NextPath(dIdx)
    /\ dIdx' = dIdx + 1
    /\ UNCHANGED <<inputVars, dRet, chanVars, wireVars, recvVars, iterVars, stageVars,
                   stagingDir, sent, enqueued, dequeued, dropped, commits, discarded,
                   dCancelled, misread, applyFailed, pathVars>>
    /\ UNCHANGED <<sentSeq, dequeuedSeq, decodeFailed>>

\* c.stream.Encode(request{path, signature}) succeeded.
DispatchEncodeOk ==
    /\ dPc = "encode"
    /\ wireReq' = Append(wireReq, paths[dIdx])
    /\ sent' = sent \cup {paths[dIdx]}
    /\ dPc' = "select"
    /\ UNCHANGED <<inputVars, dIdx, dBase, dRet, chanVars, wireResp, recvVars, iterVars,
                   stageVars, fsVars, faults, enqueued, dequeued, dropped, skipped,
                   commits, discarded, dCancelled, misread, pathVars>>
    /\ UNCHANGED <<nFaults, applyFailed>>
    /\ sentSeq' = Append(sentSeq, paths[dIdx])
    /\ UNCHANGED <<dequeuedSeq, decodeFailed>>

\* c.stream.Encode failed: return err (the base stays open, the queue is
\* not closed).
DispatchEncodeFailed ==
    /\ dPc = "encode"
    /\ dRet' = "encodeErr"
    /\ dPc' = "report"
    /\ nFaults < MaxFaults
    /\ nFaults' = nFaults + 1
    /\ faults' = faults \cup {"encode"}
    /\ UNCHANGED <<inputVars, dIdx, dBase, chanVars, wireVars, recvVars, iterVars,
                   stageVars, fsVars, sent, enqueued, dequeued, dropped, skipped,
                   commits, discarded, dCancelled, misread, pathVars>>
    /\ UNCHANGED applyFailed
    /\ UNCHANGED <<sentSeq, dequeuedSeq, decodeFailed>>

\* DispatchEnqueue with a send that never waits for room in the queue.
DispatchEnqueueUnbounded ==
    /\ dPc = "select"
    /\ ~outstandingClosed
    /\ outstanding' = Append(outstanding, DispatchedRequest(paths[dIdx], paths[dIdx]))
    /\ enqueued' = enqueued \cup {paths[dIdx]}
    /\ dBase' = "nil"
    /\ dPc' = NextPath(dIdx)
    /\ dIdx' = dIdx + 1
    /\ UNCHANGED <<inputVars, dRet, outstandingClosed, dispatchCancel, receiveCancel,
                   wireVars, recvVars, iterVars, stageVars, fsVars, faults, sent,
                   dequeued, dropped, skipped, commits, discarded, dCancelled, misread,
                   nFaults, applyFailed, pathVars>>
    /\ UNCHANGED <<sentSeq, dequeuedSeq, decodeFailed>>

\* DispatchEnqueue with a nil base in the record when the base file could not
\* be opened.
DispatchEnqueueNilStandIn ==
    /\ dPc = "select"
    /\ ~outstandingClosed
    /\ Len(outstanding) < maxOutstandingStagingRequests
    /\ outstanding' = Append(outstanding,
                             DispatchedRequest(paths[dIdx],
                                 IF dBase = "empty" THEN NilBase ELSE paths[dIdx]))
    /\ enqueued' = enqueued \cup {paths[dIdx]}
    /\ dBase' = "nil"
    /\ dPc' = NextPath(dIdx)
    /\ dIdx' = dIdx + 1
    /\ UNCHANGED <<inputVars, dRet, outstandingClosed, dispatchCancel, receiveCancel,
                   wireVars, recvVars, iterVars, stageVars, fsVars, faults, sent,
                   dequeued, dropped, skipped, commits, discarded, dCancelled, misread,
                   nFaults, applyFailed, sentSeq, dequeuedSeq, decodeFailed, pathVars>>

\* DispatchEnqueue with the record put at the head of the queue.
DispatchEnqueueFront ==
    /\ dPc = "select"
    /\ ~outstandingClosed
    /\ Len(outstanding) < maxOutstandingStagingRequests
    /\ outstanding' = <<DispatchedRequest(paths[dIdx], paths[dIdx])>> \o outstanding
    /\ enqueued' = enqueued \cup {paths[dIdx]}
    /\ dBase' = "nil"
    /\ dPc' = NextPath(dIdx)
    /\ dIdx' = dIdx + 1
    /\ UNCHANGED <<inputVars, dRet, outstandingClosed, dispatchCancel, receiveCancel,
                   wireVars, recvVars, iterVars, stageVars, fsVars, faults, sent,
                   dequeued, dropped, skipped, commits, discarded, dCancelled, misread,
                   nFaults, applyFailed, sentSeq, dequeuedSeq, decodeFailed, pathVars>>

\* select { case outstanding <- dispatchedRequest{path, base}: ... }
\* The send is ready while the buffer has room.
DispatchEnqueue ==
    /\ dPc = "select"
    /\ ~outstandingClosed
    /\ Len(outstanding) < maxOutstandingStagingRequests
    /\ outstanding' = Append(outstanding, DispatchedRequest(paths[dIdx], paths[dIdx]))
    /\ enqueued' = enqueued \cup {paths[dIdx]}
    /\ dBase' = "nil"
    /\ dPc' = NextPath(dIdx)
    /\ dIdx' = dIdx + 1
    /\ UNCHANGED <<inputVars, dRet, outstandingClosed, dispatchCancel, receiveCancel,
                   wireVars, recvVars, iterVars, stageVars, fsVars, faults, sent,
                   dequeued, dropped, skipped, commits, discarded, dCancelled, misread,
                   pathVars>>
    /\ UNCHANGED <<nFaults, applyFailed>>
    /\ UNCHANGED <<sentSeq, dequeuedSeq, decodeFailed>>

\* DispatchCancelled with the queue closed at the cancellation, the loop
\* going on as before.
DispatchCancelledClosing ==
    /\ dPc = "select"
    /\ dispatchCancel > 0
    /\ dispatchCancel' = dispatchCancel - 1
    /\ outstandingClosed' = TRUE
    /\ handle' = CloseBase(handle, paths[dIdx])
    /\ dropped' = dropped \cup {paths[dIdx]}
    /\ dCancelled' = TRUE
    /\ dBase' = "nil"
    /\ dPc' = NextPath(dIdx)
    /\ dIdx' = dIdx + 1
    /\ UNCHANGED <<inputVars, dRet, outstanding, receiveCancel,
                   wireVars, recvVars, iterVars, stageVars, stagingDir, faults, sent,
                   enqueued, dequeued, skipped, commits, discarded, misread, pathVars>>
    /\ UNCHANGED <<nFaults, applyFailed, sentSeq, dequeuedSeq, decodeFailed>>

\* select { ... case <-cancel: base.Close(); break }
\* The break leaves the select, not the for loop: the loop goes on with the
\* next path.
DispatchCancelled ==
    /\ dPc = "select"
    /\ dispatchCancel > 0
    /\ dispatchCancel' = dispatchCancel - 1
    /\ handle' = CloseBase(handle, paths[dIdx])
    /\ dropped' = dropped \cup {paths[dIdx]}
    /\ dCancelled' = TRUE
    /\ dBase' = "nil"
    /\ dPc' = NextPath(dIdx)
    /\ dIdx' = dIdx + 1
    /\ UNCHANGED <<inputVars, dRet, outstanding, outstandingClosed, receiveCancel,
                   wireVars, recvVars, iterVars, stageVars, stagingDir, faults, sent,
                   enqueued, dequeued, skipped, commits, discarded, misread, pathVars>>
    /\ UNCHANGED <<nFaults, applyFailed>>
    /\ UNCHANGED <<sentSeq, dequeuedSeq, decodeFailed>>

\* DispatchClose without the close of the queue.
DispatchCloseForgotten ==
    /\ dPc = "close"
    /\ dRet' = "nil"
    /\ dPc' = "report"
    /\ UNCHANGED <<inputVars, dIdx, dBase, chanVars, wireVars, recvVars, iterVars,
                   stageVars, fsVars, histVars, pathVars>>

\* close(outstanding); return nil
DispatchClose ==
    /\ dPc = "close"
    /\ outstandingClosed' = TRUE
    /\ dRet' = "nil"
    /\ dPc' = "report"
    /\ UNCHANGED <<inputVars, dIdx, dBase, outstanding, dispatchCancel, receiveCancel,
                   wireVars, recvVars, iterVars, stageVars, fsVars, histVars, pathVars>>

dispatch ==
    \/ DispatchSign
    \/ DispatchSkip
    \/ DispatchEncodeOk
    \/ DispatchEncodeFailed
    \/ DispatchEnqueue
    \/ DispatchCancelled
    \/ DispatchClose

\* ------------------------------------------------------------ the responder
\* The remote side (Server.Serve): it reads the next Request and answers it
\* with a finite stream of operations ended by Done.  It reads a Request
\* only after the stream of the one before has been taken off the wire.
Contents == UNION {[1..k -> alphabet] : k \in 0..MaxOps}
Stream(p, content) ==
    [i \in 1..(Len(content) + 1) |->
        IF i <= Len(content) THEN Response(p, content[i], FALSE)
        ELSE Response(p, 0, TRUE)]

ResponderAnswer ==
    /\ wireReq # <<>>
    /\ wireResp = <<>>
    /\ \E content \in Contents : wireResp' = Stream(Head(wireReq), content)
    /\ wireReq' = Tail(wireReq)
    /\ UNCHANGED <<inputVars, dispVars, chanVars, recvVars, iterVars, stageVars, fsVars,
                   histVars, pathVars>>

\* ------------------------------------------------------------ ApplyDelta task
\* go func() { applyErrors <- c.receiveRsyncer.ApplyDelta(...) }()
\* ApplyDelta returns an error before its feed is closed: the result goes
\* into the one-slot channel applyErrors and the goroutine ends.
ApplyFailed ==
    /\ aPc = "running"
    /\ ~operationsClosed
    /\ applyErrors = "empty"
    /\ applyErrors' = "applyErr"
    /\ aPc' = "exited"
    /\ nFaults < MaxFaults
    /\ nFaults' = nFaults + 1
    /\ faults' = faults \cup {"apply"}
    /\ UNCHANGED <<inputVars, dispVars, chanVars, wireVars, recvVars, operationsClosed,
                   target, tempExists, stagingHash, stageVars, fsVars, sent, enqueued,
                   dequeued, dropped, skipped, commits, discarded, dCancelled, misread,
                   pathVars>>
    /\ applyFailed' = applyFailed \cup {rReq.path}
    /\ UNCHANGED <<sentSeq, dequeuedSeq, decodeFailed>>

\* The feed is closed: ApplyDelta's range over it ends and it returns nil.
ApplyFinished ==
    /\ aPc = "running"
    /\ operationsClosed
    /\ applyErrors = "empty"
    /\ applyErrors' = "nil"
    /\ aPc' = "exited"
    /\ UNCHANGED <<inputVars, dispVars, chanVars, wireVars, recvVars, operationsClosed,
                   target, tempExists, stagingHash, stageVars, fsVars, histVars, pathVars>>

\* ----------------------------------------------------------- Client.receive
\* select { case dispatchedRequest = <-outstanding: if base == nil {return nil} }
\* The receive is ready when the queue holds a record, or is closed (and
\* then yields the zero value).
ReceiveDequeue ==
    /\ rPc = "select"
    /\ outstanding # <<>> \/ outstandingClosed
    /\ LET got == IF outstanding # <<>> THEN Head(outstanding) ELSE ZeroRequest
       IN /\ rReq' = got
          /\ outstanding' = IF outstanding # <<>> THEN Tail(outstanding) ELSE outstanding
          /\ IF got.base = NilBase
             THEN /\ rRet' = "nil"
                  /\ rPc' = "report"
                  /\ UNCHANGED dequeued
             ELSE /\ rPc' = "temp"
                  /\ dequeued' = dequeued \cup {got.path}
                  /\ UNCHANGED rRet
    /\ UNCHANGED <<inputVars, dispVars, outstandingClosed, dispatchCancel, receiveCancel,
                   wireVars, response, decodeError, applyError, applyExited, iterVars,
                   stageVars, fsVars, faults, sent, enqueued, dropped, skipped, commits,
                   discarded, dCancelled, misread, pathVars>>
    /\ UNCHANGED <<nFaults, applyFailed>>
    /\ dequeuedSeq' = IF outstanding # <<>> THEN Append(dequeuedSeq, Head(outstanding).path)
                      ELSE dequeuedSeq
    /\ UNCHANGED <<sentSeq, decodeFailed>>

\* select { ... case <-cancel: return nil }
ReceiveCancelled ==
    /\ rPc = "select"
    /\ receiveCancel > 0
    /\ receiveCancel' = receiveCancel - 1
    /\ rRet' = "nil"
    /\ rPc' = "report"
    /\ UNCHANGED <<inputVars, dispVars, outstanding, outstandingClosed, dispatchCancel,
                   wireVars, rReq, response, decodeError, applyError, applyExited,
                   iterVars, stageVars, fsVars, histVars, pathVars>>

\* ReceiveStart without c.stagingHash.Reset().
ReceiveStartNoReset ==
    /\ rPc = "temp"
    /\ tempExists' = TRUE
    /\ target' = <<>>
    /\ operationsClosed' = FALSE
    /\ applyErrors' = "empty"
    /\ aPc' = "running"
    /\ decodeError' = "nil"
    /\ applyError' = "nil"
    /\ applyExited' = FALSE
    /\ rPc' = "decode"
    /\ UNCHANGED <<inputVars, dispVars, chanVars, wireVars, rReq, response, rRet,
                   stagingHash, stageVars, fsVars, histVars, pathVars>>

\* ioutil.TempFile succeeded; make(operations), make(applyErrors, 1),
\* c.stagingHash.Reset(), go ApplyDelta(...); var applyError, decodeError
\* error; applyExited := false.
ReceiveStart ==
    /\ rPc = "temp"
    /\ tempExists' = TRUE
    /\ target' = <<>>
    /\ operationsClosed' = FALSE
    /\ applyErrors' = "empty"
    /\ stagingHash' = HashReset
    /\ aPc' = "running"
    /\ decodeError' = "nil"
    /\ applyError' = "nil"
    /\ applyExited' = FALSE
    /\ rPc' = "decode"
    /\ UNCHANGED <<inputVars, dispVars, chanVars, wireVars, rReq, response, rRet,
                   stageVars, fsVars, histVars, pathVars>>

\* ioutil.TempFile failed: dispatchedRequest.base.Close(); return err
ReceiveTempFileFailed ==
    /\ rPc = "temp"
    /\ handle' = CloseBase(handle, rReq.base)
    /\ rRet' = "tempErr"
    /\ rPc' = "report"
    /\ nFaults < MaxFaults
    /\ nFaults' = nFaults + 1
    /\ faults' = faults \cup {"tempfile"}
    /\ UNCHANGED <<inputVars, dispVars, chanVars, wireVars, rReq, response, decodeError,
                   applyError, applyExited, iterVars, stageVars, stagingDir, sent,
                   enqueued, dequeued, dropped, skipped, commits, discarded, dCancelled,
                   misread, pathVars>>
    /\ UNCHANGED applyFailed
    /\ UNCHANGED <<sentSeq, dequeuedSeq, decodeFailed>>

\* c.stream.Decode(&response) returned a response: Done leaves the feeding
\* loop, an operation goes to the forwarding select.
ReceiveDecode ==
    /\ rPc = "decode"
    /\ wireResp # <<>>
    /\ response' = Head(wireResp)
    /\ wireResp' = Tail(wireResp)
    /\ rPc' = IF Head(wireResp).done THEN "close" ELSE "forward"
    /\ misread' = (misread \/ Head(wireResp).path # rReq.path)
    /\ UNCHANGED <<inputVars, dispVars, chanVars, wireReq, rReq, decodeError, applyError,
                   applyExited, rRet, iterVars, stageVars, fsVars, faults, sent, enqueued,
                   dequeued, dropped, skipped, commits, discarded, dCancelled, pathVars>>
    /\ UNCHANGED <<nFaults, applyFailed>>
    /\ UNCHANGED <<sentSeq, dequeuedSeq, decodeFailed>>

\* c.stream.Decode failed in the feeding loop: decodeError = err; break
ReceiveDecodeFailed ==
    /\ rPc = "decode"
    /\ decodeError' = "decodeErr"
    /\ rPc' = "close"
    /\ nFaults < MaxFaults
    /\ nFaults' = nFaults + 1
    /\ faults' = faults \cup {"decode"}
    /\ UNCHANGED <<inputVars, dispVars, chanVars, wireVars, rReq, response, applyError,
                   applyExited, rRet, iterVars, stageVars, fsVars, sent, enqueued,
                   dequeued, dropped, skipped, commits, discarded, dCancelled, misread,
                   pathVars>>
    /\ UNCHANGED applyFailed
    /\ decodeFailed' = decodeFailed \cup {rReq.path}
    /\ UNCHANGED <<sentSeq, dequeuedSeq>>

\* ApplyDelta takes one operation from its feed and writes the bytes it
\* stands for to the target and to the hash accumulator.
ApplyWrite(file, d) == Append(file, d)

\* ReceiveForward with the bytes written to the target only, not to the
\* hash accumulator.
ReceiveForwardUnhashed ==
    /\ rPc = "forward"
    /\ aPc = "running"
    /\ ~operationsClosed
    /\ target' = ApplyWrite(target, response.data)
    /\ rPc' = "decode"
    /\ UNCHANGED <<inputVars, dispVars, chanVars, wireVars, rReq, response, decodeError,
                   applyError, applyExited, rRet, operationsClosed, applyErrors,
                   tempExists, stagingHash, aPc, stageVars, fsVars, histVars, pathVars>>

\* select { case operations <- response.Operation: ... }
\* operations is unbuffered: the send is ready while the apply task is
\* receiving from it.
ReceiveForward ==
    /\ rPc = "forward"
    /\ aPc = "running"
    /\ ~operationsClosed
    /\ target' = ApplyWrite(target, response.data)
    /\ stagingHash' = HashWrite(stagingHash, response.data)
    /\ rPc' = "decode"
    /\ UNCHANGED <<inputVars, dispVars, chanVars, wireVars, rReq, response, decodeError,
                   applyError, applyExited, rRet, operationsClosed, applyErrors,
                   tempExists, aPc, stageVars, fsVars, histVars, pathVars>>

\* select { ... case applyError = <-applyErrors: applyExited = true;
\*          decodeError = c.burnRemainingOperations(); break }
\* Taking the result is the first step; the call of burnRemainingOperations
\* follows at "burn".
ReceiveApplyExited ==
    /\ rPc = "forward"
    /\ applyErrors # "empty"
    /\ applyError' = applyErrors
    /\ applyErrors' = "empty"
    /\ applyExited' = TRUE
    /\ rPc' = "burn"
    /\ UNCHANGED <<inputVars, dispVars, chanVars, wireVars, rReq, response, decodeError,
                   rRet, operationsClosed, target, tempExists, stagingHash, aPc,
                   stageVars, fsVars, histVars, pathVars>>

\* ------------------------------------------ Client.burnRemainingOperations
\* One Decode of the burning loop that succeeds: on Done it returns nil,
\* which receive stores in decodeError; the break that follows the call
\* leaves the select only, so receive is back at the Decode of its feeding
\* loop.
BurnDecode ==
    /\ rPc = "burn"
    /\ wireResp # <<>>
    /\ wireResp' = Tail(wireResp)
    /\ misread' = (misread \/ Head(wireResp).path # rReq.path)
    /\ IF Head(wireResp).done
       THEN /\ decodeError' = "nil"
            /\ rPc' = "decode"
       ELSE UNCHANGED <<decodeError, rPc>>
    /\ UNCHANGED <<inputVars, dispVars, chanVars, wireReq, rReq, response, applyError,
                   applyExited, rRet, iterVars, stageVars, fsVars, faults, sent, enqueued,
                   dequeued, dropped, skipped, commits, discarded, dCancelled, pathVars>>
    /\ UNCHANGED <<nFaults, applyFailed>>
    /\ UNCHANGED <<sentSeq, dequeuedSeq, decodeFailed>>

\* A Decode of the burning loop fails: it returns err, which receive stores
\* in decodeError before the same break.
BurnDecodeFailed ==
    /\ rPc = "burn"
    /\ decodeError' = "decodeErr"
    /\ rPc' = "decode"
    /\ nFaults < MaxFaults
    /\ nFaults' = nFaults + 1
    /\ faults' = faults \cup {"decode"}
    /\ UNCHANGED <<inputVars, dispVars, chanVars, wireVars, rReq, response, applyError,
                   applyExited, rRet, iterVars, stageVars, fsVars, sent, enqueued,
                   dequeued, dropped, skipped, commits, discarded, dCancelled, misread,
                   pathVars>>
    /\ UNCHANGED applyFailed
    /\ decodeFailed' = decodeFailed \cup {rReq.path}
    /\ UNCHANGED <<sentSeq, dequeuedSeq>>

burnRemainingOperations == BurnDecode \/ BurnDecodeFailed

\* ------------------------------------------------- Client.receive, the end
\* ReceiveCloseOperations without the wait for the apply task's result.
ReceiveCloseNoWait ==
    /\ rPc = "close"
    /\ operationsClosed' = TRUE
    /\ rPc' = "commit"
    /\ UNCHANGED <<inputVars, dispVars, chanVars, wireVars, rReq, response, decodeError,
                   applyError, applyExited, rRet, applyErrors, target, tempExists,
                   stagingHash, aPc, stageVars, fsVars, histVars, pathVars>>

\* close(operations)
ReceiveCloseOperations ==
    /\ rPc = "close"
    /\ operationsClosed' = TRUE
    /\ rPc' = IF applyExited THEN "commit" ELSE "wait"
    /\ UNCHANGED <<inputVars, dispVars, chanVars, wireVars, rReq, response, decodeError,
                   applyError, applyExited, rRet, applyErrors, target, tempExists,
                   stagingHash, aPc, stageVars, fsVars, histVars, pathVars>>

\* if !applyExited { applyError = <-applyErrors }
ReceiveAwaitApply ==
    /\ rPc = "wait"
    /\ applyErrors # "empty"
    /\ applyError' = applyErrors
    /\ applyErrors' = "empty"
    /\ rPc' = "commit"
    /\ UNCHANGED <<inputVars, dispVars, chanVars, wireVars, rReq, response, decodeError,
                   applyExited, rRet, operationsClosed, target, tempExists, stagingHash,
                   aPc, stageVars, fsVars, histVars, pathVars>>

\* os.Rename(target.Name(), filepath.Join(c.staging, name)): the file of
\* that name, if any, is replaced.
Rename(dir, name, content) ==
    {f \in dir : f.name # name} \cup {[name |-> name, content |-> content]}

\* name := fmt.Sprintf("%x", c.stagingHash.Sum(nil))
StagingName(h) == HexName(h)

\* ReceiveCommit with the apply task's error left out of the test.
ReceiveCommitIgnoreApply ==
    /\ rPc = "commit"
    /\ tempExists' = FALSE
    /\ IF decodeError # "nil"
       THEN /\ discarded' = discarded \cup {rReq.path}
            /\ UNCHANGED <<stagingDir, commits>>
       ELSE /\ stagingDir' = Rename(stagingDir, StagingName(stagingHash), target)
            /\ commits' = Append(commits, rReq.path)
            /\ UNCHANGED discarded
    /\ IF decodeError # "nil"
       THEN /\ rRet' = decodeError
            /\ rPc' = "report"
       ELSE /\ rPc' = "select"
            /\ UNCHANGED rRet
    \* the iteration's locals go out of scope
    /\ rReq' = ZeroRequest
    /\ response' = Response(0, 0, FALSE)
    /\ decodeError' = "nil"
    /\ applyError' = "nil"
    /\ applyExited' = FALSE
    /\ operationsClosed' = FALSE
    /\ target' = <<>>
    /\ aPc' = "none"
    /\ UNCHANGED <<inputVars, dispVars, chanVars, wireVars, applyErrors,
                   stagingHash, stageVars, handle, faults, sent, enqueued, dequeued,
                   dropped, skipped, dCancelled, misread, pathVars>>
    /\ UNCHANGED <<nFaults, applyFailed>>
    /\ UNCHANGED <<sentSeq, dequeuedSeq, decodeFailed>>

\* target.Close(); remove or rename the temporary file; return decodeError
\* if it is set, else go round the loop.
ReceiveCommit ==
    /\ rPc = "commit"
    /\ tempExists' = FALSE
    /\ IF decodeError # "nil" \/ applyError # "nil"
       THEN /\ discarded' = discarded \cup {rReq.path}
            /\ UNCHANGED <<stagingDir, commits>>
       ELSE /\ stagingDir' = Rename(stagingDir, StagingName(stagingHash), target)
            /\ commits' = Append(commits, rReq.path)
            /\ UNCHANGED discarded
    /\ IF decodeError # "nil"
       THEN /\ rRet' = decodeError
            /\ rPc' = "report"
       ELSE /\ rPc' = "select"
            /\ UNCHANGED rRet
    \* the iteration's locals go out of scope
    /\ rReq' = ZeroRequest
    /\ response' = Response(0, 0, FALSE)
    /\ decodeError' = "nil"
    /\ applyError' = "nil"
    /\ applyExited' = FALSE
    /\ operationsClosed' = FALSE
    /\ target' = <<>>
    /\ aPc' = "none"
    /\ UNCHANGED <<inputVars, dispVars, chanVars, wireVars, applyErrors,
                   stagingHash, stageVars, handle, faults, sent, enqueued, dequeued,
                   dropped, skipped, dCancelled, misread, pathVars>>
    /\ UNCHANGED <<nFaults, applyFailed>>
    /\ UNCHANGED <<sentSeq, dequeuedSeq, decodeFailed>>

receive ==
    \/ ReceiveDequeue
    \/ ReceiveCancelled
    \/ ReceiveStart
    \/ ReceiveTempFileFailed
    \/ ReceiveDecode
    \/ ReceiveDecodeFailed
    \/ ReceiveForward
    \/ ReceiveApplyExited
    \/ burnRemainingOperations
    \/ ReceiveCloseOperations
    \/ ReceiveAwaitApply
    \/ ReceiveCommit

\* -------------------------------------------------------------- Client.Stage
\* for dispatchRunning || receiveRunning { select {...} }: where the loop is
\* after one case has run.
StageLoop(dRunning, rRunning) == IF dRunning \/ rRunning THEN "wait" ELSE "drain"

\* StageDispatchExited with the cancel signal raised whatever dispatch
\* returned.
StageDispatchExitedAlwaysCancel ==
    /\ sPc = "wait"
    /\ dPc = "report"
    /\ dPc' = "exited"
    /\ dispatchError' = dRet
    /\ dispatchRunning' = FALSE
    /\ sPc' = "cancelReceive"
    /\ UNCHANGED <<inputVars, dIdx, dBase, dRet, chanVars, wireVars, recvVars, iterVars,
                   receiveRunning, receiveError, result, fsVars, histVars, pathVars>>
    /\ UNCHANGED raised

\* case dispatchError = <-dispatchErrors: dispatchRunning = false
\* dispatchErrors is unbuffered: the goroutine's send and this receive are
\* one step.
StageDispatchExited ==
    /\ sPc = "wait"
    /\ dPc = "report"
    /\ dPc' = "exited"
    /\ dispatchError' = dRet
    /\ dispatchRunning' = FALSE
    /\ sPc' = IF dRet # "nil" THEN "cancelReceive" ELSE StageLoop(FALSE, receiveRunning)
    /\ UNCHANGED <<inputVars, dIdx, dBase, dRet, chanVars, wireVars, recvVars, iterVars,
                   receiveRunning, receiveError, result, fsVars, histVars, pathVars>>
    /\ UNCHANGED raised

\* if dispatchError != nil { receiveCancel <- struct{}{} }
StageCancelReceive ==
    /\ sPc = "cancelReceive"
    /\ receiveCancel < cancelSlots
    /\ receiveCancel' = receiveCancel + 1
    /\ sPc' = StageLoop(dispatchRunning, receiveRunning)
    /\ UNCHANGED <<inputVars, dispVars, outstanding, outstandingClosed, dispatchCancel,
                   wireVars, recvVars, iterVars, dispatchRunning, receiveRunning,
                   dispatchError, receiveError, result, fsVars, histVars, pathVars>>
    /\ raised' = [raised EXCEPT !.receive = @ + 1]

\* case receiveError = <-receiveErrors: receiveRunning = false
StageReceiveExited ==
    /\ sPc = "wait"
    /\ rPc = "report"
    /\ rPc' = "exited"
    /\ receiveError' = rRet
    /\ receiveRunning' = FALSE
    /\ sPc' = IF rRet # "nil" THEN "cancelDispatch" ELSE StageLoop(dispatchRunning, FALSE)
    /\ UNCHANGED <<inputVars, dispVars, chanVars, wireVars, rReq, response, decodeError,
                   applyError, applyExited, rRet, iterVars, dispatchRunning,
                   dispatchError, result, fsVars, histVars, pathVars>>
    /\ UNCHANGED raised

\* if receiveError != nil { dispatchCancel <- struct{}{} }
StageCancelDispatch ==
    /\ sPc = "cancelDispatch"
    /\ dispatchCancel < cancelSlots
    /\ dispatchCancel' = dispatchCancel + 1
    /\ sPc' = StageLoop(dispatchRunning, receiveRunning)
    /\ UNCHANGED <<inputVars, dispVars, outstanding, outstandingClosed, receiveCancel,
                   wireVars, recvVars, iterVars, dispatchRunning, receiveRunning,
                   dispatchError, receiveError, result, fsVars, histVars, pathVars>>
    /\ raised' = [raised EXCEPT !.dispatch = @ + 1]

\* for dispatched := range outstanding { dispatched.base.Close() }
StageDrain ==
    /\ sPc = "drain"
    /\ outstanding # <<>>
    /\ handle' = CloseBase(handle, Head(outstanding).base)
    /\ outstanding' = Tail(outstanding)
    /\ UNCHANGED <<inputVars, dispVars, outstandingClosed, dispatchCancel, receiveCancel,
                   wireVars, recvVars, iterVars, stageVars, stagingDir, histVars,
                   pathVars>>

\* if dispatchError != nil { return dispatchError }
\* else if receiveError != nil { return receiveError }; return nil
StageResult(dErr, rErr) == IF dErr # "nil" THEN dErr ELSE rErr

\* The range ends when the queue is empty and closed; Stage returns.
StageReturn ==
    /\ sPc = "drain"
    /\ outstanding = <<>>
    /\ outstandingClosed
    /\ result' = StageResult(dispatchError, receiveError)
    /\ sPc' = "returned"
    /\ UNCHANGED <<inputVars, dispVars, chanVars, wireVars, recvVars, iterVars,
                   dispatchRunning, receiveRunning, dispatchError, receiveError, fsVars,
                   histVars, pathVars>>
    /\ UNCHANGED raised

Stage ==
    \/ StageDispatchExited
    \/ StageCancelReceive
    \/ StageReceiveExited
    \/ StageCancelDispatch
    \/ StageDrain
    \/ StageReturn

\* ------------------------------------------------------------------ path.go
\* type Path []string: a slice header (the backing array it points into, its
\* length and its capacity); heap[a] is backing array a.  NilPath is the nil
\* slice.
NilPath == [ptr |-> 0, len |-> 0, cap |-> 0]
Components == 1..MaxComponents

\* The components a Path value denotes.
PathContents(h, p) == [i \in 1..p.len |-> h[p.ptr][i]]

\* append(p, component), which writes in place when the backing array has
\* room and otherwise moves to an array of twice the capacity.
AppendedInPlace(h, p, component) ==
    IF p.len < p.cap
    THEN [heap |-> [h EXCEPT ![p.ptr][p.len + 1] = component],
          result |-> [ptr |-> p.ptr, len |-> p.len + 1, cap |-> p.cap]]
    ELSE LET newCap == IF p.cap = 0 THEN 1 ELSE 2 * p.cap
             array == [i \in 1..newCap |->
                          IF i <= p.len THEN h[p.ptr][i]
                          ELSE IF i = p.len + 1 THEN component ELSE 0]
         IN [heap |-> Append(h, array),
             result |-> [ptr |-> Len(h) + 1, len |-> p.len + 1, cap |-> newCap]]

\* func (p Path) Appended(component string) Path:
\* result := make(Path, existingLength+1); copy(result, p);
\* result[existingLength] = component
Appended(h, p, component) ==
    LET existingLength == p.len
        array == [i \in 1..(existingLength + 1) |->
                     IF i <= existingLength THEN h[p.ptr][i] ELSE component]
    IN [heap |-> Append(h, array),
        result |-> [ptr |-> Len(h) + 1, len |-> existingLength + 1,
                    cap |-> existingLength + 1]]

\* A caller appends a component to one of the Path values it holds and keeps
\* the result; expected[i] is what values[i] denoted when it was returned.
PathAppended ==
    /\ Len(values) < MaxValues
    /\ \E i \in DOMAIN values, c \in Components :
         /\ values[i].len < MaxPathLen
         /\ LET r == Appended(heap, values[i], c)
            IN /\ heap' = r.heap
               /\ values' = Append(values, r.result)
               /\ expected' = Append(expected, Append(expected[i], c))
    /\ UNCHANGED pipeVars

\* --------------------------------------------------------- specifications
\* Stage(paths) has made its channels and started both goroutines.
InitStage(lengths, bytes) ==
    /\ \E n \in lengths : paths = [i \in 1..n |-> i]
    /\ alphabet = bytes
    /\ dPc = NextPath(0)
    /\ dIdx = 1
    /\ dBase = "nil"
    /\ dRet = "none"
    /\ outstanding = <<>>
    /\ outstandingClosed = FALSE
    /\ dispatchCancel = 0
    /\ receiveCancel = 0
    /\ wireReq = <<>>
    /\ wireResp = <<>>
    /\ rPc = "select"
    /\ rReq = ZeroRequest
    /\ response = Response(0, 0, FALSE)
    /\ decodeError = "nil"
    /\ applyError = "nil"
    /\ applyExited = FALSE
    /\ rRet = "none"
    /\ operationsClosed = FALSE
    /\ applyErrors = "empty"
    /\ target = <<>>
    /\ tempExists = FALSE
    /\ stagingHash = HashReset
    /\ aPc = "none"
    /\ sPc = "wait"
    /\ dispatchRunning = TRUE
    /\ receiveRunning = TRUE
    /\ dispatchError = "nil"
    /\ receiveError = "nil"
    /\ result = "none"
    /\ handle = [p \in DOMAIN paths |-> "unopened"]
    /\ stagingDir = {}
    /\ faults = {}
    /\ sent = {}
    /\ enqueued = {}
    /\ dequeued = {}
    /\ dropped = {}
    /\ skipped = {}
    /\ commits = <<>>
    /\ applyFailed = {}
    /\ discarded = {}
    /\ dCancelled = FALSE
    /\ misread = FALSE
    /\ nFaults = 0
    /\ sentSeq = <<>>
    /\ dequeuedSeq = <<>>
    /\ decodeFailed = {}
    /\ raised = [dispatch |-> 0, receive |-> 0]

InitPathIdle ==
    /\ heap = <<>>
    /\ values = <<>>
    /\ expected = <<>>

Init == InitStage(0..MaxPaths, {1}) /\ InitPathIdle

\* The shortest path list that fills the queue and leaves the dispatcher
\* with one more record.
LongList == maxOutstandingStagingRequests + 1
InitLong == InitStage(0..LongList, {1}) /\ InitPathIdle

Next ==
    \/ dispatch
    \/ receive
    \/ ApplyFailed
    \/ ApplyFinished
    \/ ResponderAnswer
    \/ Stage

Spec == Init /\ [][Next]_vars

\* The runs in which no Encode, Decode or TempFile call fails and no apply
\* task returns before its feed is closed: the steps left are the ones such a
\* run can take.
NextFaultFree ==
    \/ DispatchSign
    \/ DispatchSkip
    \/ DispatchEncodeOk
    \/ DispatchEnqueue
    \/ DispatchClose
    \/ ResponderAnswer
    \/ ApplyFinished
    \/ ReceiveDequeue
    \/ ReceiveStart
    \/ ReceiveDecode
    \/ ReceiveForward
    \/ ReceiveCloseOperations
    \/ ReceiveAwaitApply
    \/ ReceiveCommit
    \/ StageDispatchExited
    \/ StageReceiveExited
    \/ StageReturn

\* The same program staging two paths whose true contents are made of
\* several different bytes.
InitContent == InitStage({2}, 1..MaxData) /\ InitPathIdle
ContentSpec == InitContent /\ [][Next]_vars

\* Every goroutine that can take a step eventually takes one.
FaultFreeSpec == InitLong /\ [][NextFaultFree]_vars /\ WF_vars(NextFaultFree)

\* The same program on path lists up to one longer than the queue.
LongSpec == InitLong /\ [][Next]_vars

\* The same program, in the runs without failures, on a path list two longer
\* than the dispatcher, the queue and the receiver can hold between them.
LeakList == maxOutstandingStagingRequests + 3
InitLeak == InitStage({LeakList}, {1}) /\ InitPathIdle
LeakSpec == InitLeak /\ [][NextFaultFree]_vars

\* A caller that starts from the nil Path and builds values with Appended.
InitPath ==
    /\ InitStage({0}, {1})
    /\ heap = <<>>
    /\ values = <<NilPath>>
    /\ expected = << <<>> >>
PathSpec == InitPath /\ [][PathAppended]_vars

\* ------------------------------------------------------------------ claims
Fatal == {"encode", "decode", "tempfile"}
PerPath == {"signature", "apply"}
Committed == {commits[i] : i \in DOMAIN commits}
Returned == sPc = "returned"
\* The digest of a whole content, computed from scratch.
RECURSIVE HashOf(_)
HashOf(content) ==
    IF content = <<>> THEN HashReset
    ELSE HashWrite(HashOf(SubSeq(content, 1, Len(content) - 1)), content[Len(content)])
\* The sent paths in source order.
RECURSIVE Ascending(_)
Ascending(S) ==
    IF S = {} THEN <<>>
    ELSE LET m == CHOOSE x \in S : \A y \in S : x <= y
         IN <<m>> \o Ascending(S \ {m})

\* C1: in a run without Encode, Decode, TempFile or early apply failures,
\* Stage eventually returns nil, and by then the temporary file of every path
\* whose Request was sent has been renamed exactly once, in source order, and
\* none has been removed.
C1_FaultFreeRunReturnsNil ==
    <>(/\ Returned
       /\ result = "nil"
       /\ commits = Ascending(sent)
       /\ discarded = {})

C1_Witness ==
    /\ Returned
    /\ result = "nil"
    /\ Len(paths) = 3
    /\ commits = <<1, 2, 3>>

\* C2: whenever an Encode of a Request has failed, dispatch has returned that
\* error and Stage goes on to return it: the system is never stuck before
\* Stage has returned the dispatcher's error.
C2_EncodeFailureSurfaced ==
    "encode" \in faults =>
        /\ dRet = "encodeErr"
        /\ \/ Returned /\ result = "encodeErr"
           \/ ~Returned /\ ENABLED Next

\* C3: whenever a Decode of a Response has failed (and no Encode has), the
\* receiver ends with that error and Stage goes on to return it, with every
\* file committed so far still in the staging directory: the system is never
\* stuck before Stage has returned the decode error.
C3_DecodeFailureSurfaced ==
    ("decode" \in faults /\ "encode" \notin faults) =>
        /\ Cardinality(stagingDir) >= 1 \/ commits = <<>>
        /\ \/ Returned /\ rRet = "decodeErr" /\ result = "decodeErr"
           \/ ~Returned /\ ENABLED Next

\* C4: when only apply tasks (and signatures) fail, the receiver discards the
\* failed path and still commits every other sent path, and Stage returns
\* nil: the system is never stuck before that.
C4_ApplyFailureDoesNotBlock ==
    ("apply" \in faults /\ faults \subseteq PerPath) =>
        \/ /\ Returned
           /\ result = "nil"
           /\ discarded = applyFailed
           /\ Committed = sent \ applyFailed
        \/ ~Returned /\ ENABLED Next

\* C5: once the dispatcher's select has taken the cancel signal, no further
\* Request is encoded and no further record is enqueued, and a Stage call
\* that returns after that returns a non-nil error.
C5_CancelStopsDispatcher ==
    /\ [][dCancelled => (sent' = sent /\ enqueued' = enqueued)]_vars
    /\ [](dCancelled /\ Returned => result # "nil")

C7_NoLeakedBaseHandles ==
    Returned => \A p \in DOMAIN handle : handle[p] # "open"

\* C8: a path whose signature failed has its base closed, no Request and no
\* record, and the dispatcher has moved past it; and as long as only
\* signatures and apply tasks fail, neither dispatch nor receive nor Stage
\* returns a non-nil error.
C8_PerPathFailuresNotFatal ==
    /\ \A p \in skipped :
         /\ handle[p] = "closed"
         /\ p \notin sent
         /\ p \notin enqueued
         /\ dIdx > p
    /\ faults \subseteq PerPath =>
         /\ dRet \in {"none", "nil"}
         /\ rRet \in {"none", "nil"}
         /\ result \in {"none", "nil"}

C8_Witness ==
    /\ skipped # {}
    /\ applyFailed # {}
    /\ commits # <<>>
    /\ Returned
    /\ result = "nil"

\* C9: every committed file is named by the lowercase hex digest of its own
\* content, so no two files share a name, and committing a content that is
\* already in the staging directory leaves the directory as it was.
C9_ContentAddressedCommit ==
    /\ [](\A f \in stagingDir : f.name = HexName(HashOf(f.content)))
    /\ [](\A f, g \in stagingDir : f.name = g.name => f = g)
    /\ [][(/\ rPc = "commit"
           /\ rPc' # "commit"
           /\ decodeError = "nil"
           /\ applyError = "nil"
           /\ \E f \in stagingDir : f.content = target)
          => stagingDir' = stagingDir]_vars

C9_Witness ==
    /\ Len(commits) = 2
    /\ Cardinality(stagingDir) = 1
    /\ \E f \in stagingDir : Len(f.content) = 2

\* C10: every Path value keeps denoting the components it denoted when
\* Appended returned it (those of its receiver followed by the new one),
\* whatever Appended calls are made later on it or on any other value.
C10_AppendedNonMutating ==
    \A i \in DOMAIN values :
        /\ PathContents(heap, values[i]) = expected[i]
        /\ values[i].len = Len(expected[i])

C10_Witness ==
    \E i, j, k \in DOMAIN values :
        /\ expected[i] = <<1, 1, 1, 1>>
        /\ expected[j] = <<1, 1, 1, 2>>
        /\ expected[k] = <<1, 1, 1>>
        /\ i < j
        /\ PathContents(heap, values[i]) = <<1, 1, 1, 1>>

\* C11: every Response the receiver takes off the stream during an
\* iteration, in its feeding loop or while draining after an early exit of
\* the apply task, belongs to the stream that answers the path of the record
\* dequeued for that iteration: no Response of a later path is consumed.
C11_WireFramingPreserved ==
    ~misread

IsPrefix(s, t) == Len(s) <= Len(t) /\ SubSeq(t, 1, Len(s)) = s
StrictlyAscending(s) == \A i, j \in DOMAIN s : i < j => s[i] < s[j]

\* C12: the paths the receiver has dequeued, in the order it dequeued them,
\* are a prefix of the paths whose Request the dispatcher has encoded, in the
\* order it encoded them; Requests are encoded in source order; and every
\* record in the queue is of a path whose Request has been encoded.
C12_NoCrossPathReordering ==
    /\ IsPrefix(dequeuedSeq, sentSeq)
    /\ StrictlyAscending(sentSeq)
    /\ \A i \in DOMAIN outstanding : outstanding[i].path \in sent

C12_Witness ==
    /\ Len(dequeuedSeq) >= 2
    /\ skipped # {}
    /\ dropped # {}

\* C13: a path's temporary file was renamed only if neither a Decode nor the
\* apply task failed in its iteration and was removed only if one of them
\* did; the step that ends an iteration renames the file (to a name under
\* which its content is then found) exactly when the iteration had no such
\* failure and removes it otherwise; and while the receiver is between
\* iterations or has returned, no temporary file exists.
C13_CommitRule ==
    /\ [](/\ Committed \cap (applyFailed \cup decodeFailed) = {}
          /\ discarded \subseteq (applyFailed \cup decodeFailed)
          /\ rPc \in {"select", "temp", "report", "exited"} => ~tempExists)
    /\ [][(rPc = "commit" /\ rPc' # "commit") =>
            IF rReq.path \in (applyFailed \cup decodeFailed)
            THEN /\ discarded' = discarded \cup {rReq.path}
                 /\ stagingDir' = stagingDir
                 /\ commits' = commits
            ELSE /\ commits' = Append(commits, rReq.path)
                 /\ discarded' = discarded
                 /\ [name |-> HexName(stagingHash), content |-> target] \in stagingDir']_vars

C13_Witness ==
    /\ commits # <<>>
    /\ discarded \cap applyFailed # {}
    /\ discarded \cap decodeFailed # {}
    /\ rPc = "exited"
    /\ ~tempExists

\* C14: an apply task runs only inside a receiver iteration, between its
\* launch and the wait for its result; when the receiver launches one, is at
\* its dequeue or has returned, none is live and no result is pending; and
\* when the receiver closes and commits or removes the temporary file, the
\* iteration's apply task has exited and its result has been received.
C14_AtMostOneLiveApplyTask ==
    /\ aPc = "running" => rPc \in {"decode", "forward", "burn", "close", "wait"}
    /\ rPc \in {"select", "temp", "report", "exited"} =>
         aPc = "none" /\ applyErrors = "empty"
    /\ rPc = "commit" => aPc = "exited" /\ applyErrors = "empty"

C14_Witness ==
    /\ rPc = "commit"
    /\ applyExited
    /\ applyError = "applyErr"
    /\ commits # <<>>

\* Who holds the base handle opened for path p: the dispatcher between the
\* open and the end of its select, the queue while a record with it is
\* queued, the receiver (with its apply task) during the iteration of the
\* record.  Stage's drain takes a record and closes its base in one step.
DispatcherHolds(p) == dPc \in {"encode", "select"} /\ paths[dIdx] = p
QueueHolds(p) == \E i \in DOMAIN outstanding : outstanding[i].base = p
ReceiverHolds(p) ==
    /\ rPc \in {"temp", "decode", "forward", "burn", "close", "wait", "commit"}
    /\ rReq.base = p
Holders(p) ==
    (IF DispatcherHolds(p) THEN 1 ELSE 0) + (IF QueueHolds(p) THEN 1 ELSE 0)
        + (IF ReceiverHolds(p) THEN 1 ELSE 0)

\* C15: no base handle is closed twice; every handle that is open is held by
\* exactly one of dispatcher, queue and receiver, and a handle that is not
\* open by none; and Stage drains the queue only after both dispatch and
\* receive have reported.
C15_ExclusiveOwnership ==
    /\ \A p \in DOMAIN handle : handle[p] # "closedTwice"
    /\ \A p \in DOMAIN handle : handle[p] = "open" => Holders(p) = 1
    /\ \A p \in DOMAIN handle : handle[p] # "open" => Holders(p) = 0
    /\ sPc \in {"drain", "returned"} => dPc = "exited" /\ rPc = "exited"

\* C16: Stage sends on each cancel channel at most once, only after the
\* other goroutine has reported a non-nil error, and the channel is empty
\* whenever Stage is about to send on it, so the send is always ready; and
\* Stage leaves its wait loop only after both goroutines have reported.
C16_CancelNeverBlocks ==
    /\ raised.receive <= 1 /\ raised.dispatch <= 1
    /\ receiveCancel <= cancelSlots /\ dispatchCancel <= cancelSlots
    /\ raised.receive = 1 => dispatchError # "nil" /\ ~dispatchRunning
    /\ raised.dispatch = 1 => receiveError # "nil" /\ ~receiveRunning
    /\ sPc = "cancelReceive" =>
         /\ dispatchError # "nil"
         /\ raised.receive = 0
         /\ receiveCancel = 0
         /\ ENABLED StageCancelReceive
    /\ sPc = "cancelDispatch" =>
         /\ receiveError # "nil"
         /\ raised.dispatch = 0
         /\ dispatchCancel = 0
         /\ ENABLED StageCancelDispatch
    /\ sPc = "wait" /\ dPc = "report" => ENABLED StageDispatchExited
    /\ sPc = "wait" /\ rPc = "report" => ENABLED StageReceiveExited
    /\ sPc \in {"drain", "returned"} => ~dispatchRunning /\ ~receiveRunning

C16_Witness ==
    /\ raised.receive = 1
    /\ raised.dispatch = 1
    /\ sPc = "drain"

\* The base handles the dispatcher has opened that no one has closed.
OpenHandles == {p \in DOMAIN handle : handle[p] = "open"}

\* C17: at most C + 2 base handles are open at any time (C in the queue, one
\* held by the dispatcher, one by the receiver), however long the path list.
C17_OpenHandlesBounded ==
    Cardinality(OpenHandles) <= maxOutstandingStagingRequests + 2

\* C18: no record in the queue has a nil base; the receiver returns from its
\* dequeue select only with nil, with no temporary file, and only when the
\* queue was closed and empty or it took the cancel signal; it returns nil
\* nowhere else; and whenever it takes a record off the queue it goes on to
\* the iteration for that record.
C18_EndOfInputExact ==
    /\ [](\A i \in DOMAIN outstanding : outstanding[i].base # NilBase)
    /\ [][(rPc = "select" /\ rPc' = "report") =>
            /\ rRet' = "nil"
            /\ ~tempExists'
            /\ \/ /\ outstanding = <<>>
                  /\ outstandingClosed
                  /\ receiveCancel' = receiveCancel
               \/ /\ receiveCancel' = receiveCancel - 1
                  /\ outstanding' = outstanding]_vars
    /\ [][(rRet' = "nil" /\ rRet # "nil") => rPc = "select"]_vars
    /\ [][dequeuedSeq' # dequeuedSeq =>
            /\ rPc' = "temp"
            /\ rReq' = Head(outstanding)
            /\ rReq'.base # NilBase]_vars

C18_Witness ==
    /\ rPc = "report"
    /\ rRet = "nil"
    /\ outstandingClosed
    /\ outstanding = <<>>
    /\ receiveCancel = 0
    /\ Len(dequeuedSeq) >= 2

\* C19: the queue is closed only by the dispatcher's close(outstanding), at
\* most once, and the dispatcher is past its loop when it is closed, so it
\* never sends on the closed queue; the feed of an iteration is open
\* wherever the receiver may send on it or is about to close it, and closed
\* from then to the end of the iteration; and the result channel is empty
\* while the apply task runs, so its send is ready and the task can end
\* once its feed is closed.
C19_NoChannelMisuse ==
    /\ [](/\ dPc \in {"open", "encode", "select", "close"} => ~outstandingClosed
          /\ outstandingClosed => dPc \in {"report", "exited"} /\ dRet = "nil"
          /\ rPc \in {"decode", "forward", "burn", "close"} => ~operationsClosed
          /\ rPc \in {"wait", "commit"} => operationsClosed
          /\ aPc = "running" => applyErrors = "empty"
          /\ aPc = "running" /\ operationsClosed => ENABLED ApplyFinished)
    /\ [][outstandingClosed' # outstandingClosed => dPc = "close" /\ dPc' = "report"]_vars
    /\ [][operationsClosed' /\ ~operationsClosed => rPc = "close" /\ rPc' # "close"]_vars

C19_Witness ==
    /\ dCancelled
    /\ outstandingClosed
    /\ rPc = "exited"
    /\ commits # <<>>

\* C20: the accumulator changes only in the receiver's Reset, made while no
\* apply task is live, and in the writes of the live apply task; from the
\* launch of the task on it is the digest of the bytes written to the
\* target so far; and the receiver reads it for the commit name only after
\* the task has exited and its result has been received, so a committed
\* file is named by the digest of exactly the bytes written for its path.
C20_HashAccumulatorNotShared ==
    /\ [](/\ rPc = "temp" => aPc = "none"
          /\ aPc \in {"running", "exited"} => stagingHash = HashOf(target)
          /\ rPc = "commit" =>
               /\ aPc = "exited"
               /\ applyErrors = "empty"
               /\ StagingName(stagingHash) = HexName(HashOf(target)))
    /\ [][stagingHash' # stagingHash =>
            \/ rPc = "temp" /\ aPc = "none" /\ stagingHash' = HashReset
            \/ /\ rPc = "forward"
               /\ aPc = "running"
               /\ stagingHash' = HashWrite(stagingHash, response.data)]_vars
    /\ [][commits' # commits =>
            [name |-> HexName(HashOf(target)), content |-> target] \in stagingDir']_vars

C20_Witness ==
    /\ rPc = "commit"
    /\ decodeError = "nil"
    /\ applyError = "nil"
    /\ Len(target) = 2
    /\ target[1] # target[2]
    /\ \E f \in stagingDir : f.content # <<>> /\ f.content # target

====
